---- MODULE Spec2Model ----
(***************************************************************************)
(* Model of core/symbol_precision.py: the SymbolPrecision table loaded     *)
(* from config/symbol_precision.json and the public operations             *)
(* get_tick_size, get_min_notional, get_trimmed_quantity,                  *)
(* get_trimmed_price and get_precise_price.                                *)
(*                                                                         *)
(* Numbers.  A Python float / Decimal is a record                          *)
(*     [kind |-> "num", neg, mag, ulp]                                     *)
(* whose magnitude mag is a sequence of decimal digits (most significant   *)
(* first, no leading zero) counting units of 1e-18, the resolution of the  *)
(* quantize() call of get_min_qty_by_min_notional.  Digit sequences keep   *)
(* the arithmetic exact at any size, as Decimal does with 28 digits.       *)
(* ulp is 0 when str() of the float is the decimal mag, and -1 / 1 when    *)
(* the binary float lies just below / above the decimal mag: this only     *)
(* happens for the product multiples * step of get_trimmed_quantity.       *)
(* The other Python values that can be passed in are None, NaN and a       *)
(* non-numeric string; "raise" marks an exception leaving a function.      *)
(***************************************************************************)
EXTENDS Integers, Sequences, FiniteSets, TLC

(***************************************************************************)
(* Digit-sequence arithmetic (decimal.Decimal)                             *)
(***************************************************************************)
Zeros(k) == [i \in 1..k |-> 0]

RECURSIVE Digits(_)
Digits(n) == IF n = 0 THEN <<>> ELSE Append(Digits(n \div 10), n % 10)

RECURSIVE Strip(_)
Strip(ds) == IF ds # <<>> /\ Head(ds) = 0 THEN Strip(Tail(ds)) ELSE ds

RECURSIVE ToInt(_)
ToInt(ds) == IF ds = <<>> THEN 0 ELSE 10 * ToInt(SubSeq(ds, 1, Len(ds) - 1)) + ds[Len(ds)]

\* -1, 0, 1 as a < b, a = b, a > b, for digit sequences without leading zeros
CmpMag(a, b) ==
    IF Len(a) # Len(b) THEN (IF Len(a) < Len(b) THEN -1 ELSE 1)
    ELSE LET diff == {i \in 1..Len(a) : a[i] # b[i]}
         IN  IF diff = {} THEN 0
             ELSE LET i == CHOOSE x \in diff : \A y \in diff : x <= y
                  IN  IF a[i] < b[i] THEN -1 ELSE 1

\* ds + 1
RECURSIVE Inc(_)
Inc(ds) ==
    IF ds = <<>> THEN <<1>>
    ELSE IF ds[Len(ds)] < 9 THEN [ds EXCEPT ![Len(ds)] = @ + 1]
    ELSE Append(Inc(SubSeq(ds, 1, Len(ds) - 1)), 0)

\* ds - 1, for ds > 0
RECURSIVE Dec(_)
Dec(ds) ==
    IF ds[Len(ds)] > 0 THEN Strip([ds EXCEPT ![Len(ds)] = @ - 1])
    ELSE Append(Dec(SubSeq(ds, 1, Len(ds) - 1)), 9)

\* quotient and remainder of ds by the small integer d > 0 (schoolbook)
RECURSIVE ShortDivFrom(_, _, _, _, _)
ShortDivFrom(ds, d, i, r, acc) ==
    IF i > Len(ds) THEN [q |-> Strip(acc), r |-> r]
    ELSE LET cur == 10 * r + ds[i]
         IN  ShortDivFrom(ds, d, i + 1, cur % d, Append(acc, cur \div d))

ShortDiv(ds, d) == ShortDivFrom(ds, d, 1, 0, <<>>)

\* ds * m for a small integer m >= 0
RECURSIVE ShortMulFrom(_, _, _, _, _)
ShortMulFrom(ds, m, i, carry, acc) ==
    IF i = 0 THEN Strip(Digits(carry) \o acc)
    ELSE LET cur == ds[i] * m + carry
         IN  ShortMulFrom(ds, m, i - 1, cur \div 10, <<cur % 10>> \o acc)

ShortMul(ds, m) == ShortMulFrom(ds, m, Len(ds), 0, <<>>)

\* number of trailing zero digits of a non-empty magnitude
RECURSIVE TrailingZeros(_)
TrailingZeros(ds) ==
    IF ds = <<>> \/ ds[Len(ds)] # 0 THEN 0
    ELSE 1 + TrailingZeros(SubSeq(ds, 1, Len(ds) - 1))

\* a grid size g > 0 written as Coef(g) * 10^Shift(g) units
Shift(g) == TrailingZeros(g)
Coef(g) == ToInt(SubSeq(g, 1, Len(g) - Shift(g)))

\* the digits of ds above / within its last k positions
High(ds, k) == IF Len(ds) <= k THEN <<>> ELSE SubSeq(ds, 1, Len(ds) - k)
Low(ds, k) == IF Len(ds) <= k THEN ds ELSE SubSeq(ds, Len(ds) - k + 1, Len(ds))
AllZero(ds) == \A i \in 1..Len(ds) : ds[i] = 0

\* a // g and a % g = 0 on magnitudes, g > 0
FloorQuot(a, g) == ShortDiv(High(a, Shift(g)), Coef(g)).q
Divides(g, a) == AllZero(Low(a, Shift(g))) /\ ShortDiv(High(a, Shift(g)), Coef(g)).r = 0
\* n * g on magnitudes
TimesGrid(n, g) == Strip(ShortMul(n, Coef(g)) \o Zeros(Shift(g)))

(***************************************************************************)
(* Python values                                                           *)
(***************************************************************************)
Num(neg, mag, ulp) == [kind |-> "num", neg |-> (neg /\ mag # <<>>), mag |-> mag, ulp |-> ulp]
None == [kind |-> "none", neg |-> FALSE, mag |-> <<>>, ulp |-> 0]
NaN == [kind |-> "nan", neg |-> FALSE, mag |-> <<>>, ulp |-> 0]
Text == [kind |-> "str", neg |-> FALSE, mag |-> <<>>, ulp |-> 0]
Raise == [kind |-> "raise", neg |-> FALSE, mag |-> <<>>, ulp |-> 0]

UnitPlaces == 18

\* the float whose repr is c * 10^e, for e >= -18
D(c, e) == Num(c < 0, Strip(Digits(IF c < 0 THEN -c ELSE c) \o Zeros(e + UnitPlaces)), 0)
Zero == D(0, 0)

IsZero(v) == v.mag = <<>>
\* v < w, v <= w on numbers whose repr is exact (ulp = 0)
Less(v, w) ==
    IF v.neg /\ ~w.neg THEN TRUE
    ELSE IF ~v.neg /\ w.neg THEN FALSE
    ELSE IF v.neg THEN CmpMag(v.mag, w.mag) = 1
    ELSE CmpMag(v.mag, w.mag) = -1
Leq(v, w) == ~Less(w, v)
\* v is an integer multiple of the grid g (only zero is a multiple of zero)
IsMultipleOf(v, g) == IF IsZero(g) THEN IsZero(v) ELSE Divides(g.mag, v.mag)

(***************************************************************************)
(* The precision file and the table loaded from it                         *)
(***************************************************************************)
VARIABLES precision_file, data, pc, op, symbol, qty, price, result
vars == <<precision_file, data, pc, op, symbol, qty, price, result>>

DEFAULT_TICK_SIZE == D(1, -8)
DEFAULT_STEP_SIZE == D(1, -8)
DEFAULT_MIN_NOTIONAL == D(1, -6)

Dict(fields) == [shape |-> "dict", fields |-> fields]
EmptyDict == Dict(<<>>)
\* a symbol whose JSON value is a bare number instead of an object
Scalar == [shape |-> "number", fields |-> <<>>]

\* what json.load returns for a well-formed config/symbol_precision.json
PrecisionJson ==
    [s \in {"BTCUSDT", "DOGEUSDT", "SHIBUSDT", "ETHUSDT", "BADUSDT", "XRPUSDT"} |->
        CASE s = "BTCUSDT"  -> Dict("stepSize" :> D(1, -3) @@ "tickSize" :> D(1, -2)
                                    @@ "minNotional" :> D(10, 0))
          [] s = "DOGEUSDT" -> Dict("quantityPrecision" :> D(6, 0) @@ "pricePrecision" :> D(4, 0)
                                    @@ "min_notional" :> D(1, 0))
          [] s = "SHIBUSDT" -> Dict("qtyPrecision" :> D(13, 0) @@ "priceTick" :> D(1, -10))
          [] s = "ETHUSDT"  -> Dict("lotSize" :> D(1, -7))
          [] s = "BADUSDT"  -> Dict("stepSize" :> Text @@ "quantityPrecision" :> D(2, 0)
                                    @@ "tickSize" :> None @@ "minNotional" :> D(5, 0))
          [] OTHER          -> Scalar]

Sources == {"missing", "malformed", "present"}

_load(file) == IF file = "present" THEN PrecisionJson ELSE <<>>

get_symbol_entry(sym) == IF sym \in DOMAIN data THEN data[sym] ELSE EmptyDict

\* float(x) and int(x) of a JSON value; Raise for null and non-numeric text
FloatOf(x) == IF x.kind = "num" THEN x ELSE Raise
IntOf(x) == IF x.kind = "num" THEN Num(x.neg, Strip(High(x.mag, UnitPlaces) \o Zeros(UnitPlaces)), 0)
            ELSE Raise
\* float(10 ** -prec) for an integer prec <= 18
TenToMinus(prec) ==
    LET n == ToInt(High(prec.mag, UnitPlaces))
    IN  IF prec.neg THEN D(1, n) ELSE D(1, -n)

\* the first key of the tuple keys that the dict s has, or "" when it has none
RECURSIVE FirstKey(_, _)
FirstKey(keys, s) ==
    IF keys = <<>> THEN ""
    ELSE IF Head(keys) \in DOMAIN s.fields THEN Head(keys)
    ELSE FirstKey(Tail(keys), s)

\* the shared shape of the three lookups: direct keys through float(), then
\* precision keys through 10 ** -int(); any exception gives the default
Lookup(sym, directKeys, precKeys, default) ==
    LET s == get_symbol_entry(sym)
        k1 == FirstKey(directKeys, s)
        k2 == FirstKey(precKeys, s)
    IN  IF s.shape # "dict" THEN default
        ELSE IF k1 # "" THEN (IF FloatOf(s.fields[k1]) = Raise THEN default
                              ELSE FloatOf(s.fields[k1]))
        ELSE IF k2 # "" THEN (IF IntOf(s.fields[k2]) = Raise THEN default
                              ELSE TenToMinus(IntOf(s.fields[k2])))
        ELSE default

get_step_size(sym) ==
    Lookup(sym, <<"stepSize", "lotSize", "quantity_step", "qty_step">>,
           <<"quantityPrecision", "qtyPrecision">>, DEFAULT_STEP_SIZE)

get_tick_size(sym) ==
    Lookup(sym, <<"tickSize", "priceTick", "pricePrecision">>,
           <<"pricePrecision">>, DEFAULT_TICK_SIZE)

\* faulty variant: the fallback of another field
get_min_notional_step_default(sym) ==
    Lookup(sym, <<"minNotional", "min_notional">>, <<>>, DEFAULT_STEP_SIZE)

get_min_notional(sym) ==
    Lookup(sym, <<"minNotional", "min_notional">>, <<>>, DEFAULT_MIN_NOTIONAL)

(***************************************************************************)
(* Rounding                                                                *)
(***************************************************************************)
\* IEEE-754 double results that differ from the decimal result, listed as
\* <<Coef(step), decimal places of step, n>> for the steps of PrecisionJson,
\* among them every multiple n that the prices of QtyPriceInputs lead to:
\* float(n * step) / step is above n, so math.ceil gives n + 1
FloatDivAbove == {<<1, 6, 20>>, <<1, 6, 250>>}
\* n * step is just below / just above the decimal product
FloatMulBelow == {<<1, 6, 20>>, <<1, 6, 333334>>}
FloatMulAbove == {<<1, 3, 4762>>, <<1, 8, 34>>, <<1, 8, 48>>, <<1, 8, 166666667>>,
                  <<1, 13, 200>>, <<1, 13, 3333334>>}

GridKey(g, n) == <<Coef(g), UnitPlaces - Shift(g), IF Len(n) <= 9 THEN ToInt(n) ELSE 0>>

\* faulty variant: the price is returned without snapping it to the grid
round_price_unrounded(sym, p) == IF p.kind = "nan" THEN NaN ELSE p

round_price(sym, p) ==
    LET tick == get_tick_size(sym)
    IN  IF p.kind = "nan" THEN NaN
        ELSE IF IsZero(tick) THEN p
        ELSE Num(p.neg, TimesGrid(FloorQuot(p.mag, tick.mag), tick.mag), 0)

\* faulty variant: the quantity is only clamped, not snapped to the grid
round_quantity_down_unrounded(sym, q) ==
    IF q.kind = "nan" \/ q.neg THEN Zero ELSE q

\* faulty variant: binary floor(q / step), where a quantity that is an exact
\* multiple of the step falls into the previous increment
round_quantity_down_binary(sym, q) ==
    LET step == get_step_size(sym)
        whole == FloorQuot(q.mag, step.mag)
        increments == IF ~IsZero(q) /\ Divides(step.mag, q.mag) THEN Dec(whole) ELSE whole
    IN  IF q.kind = "nan" THEN Zero
        ELSE IF IsZero(step) THEN q
        ELSE IF q.neg THEN Zero
        ELSE Num(FALSE, TimesGrid(increments, step.mag), 0)

round_quantity_down(sym, q) ==
    LET step == get_step_size(sym)
        whole == FloorQuot(q.mag, step.mag)
        \* Decimal(str(q)) // step; a float just below a multiple of the step
        \* belongs to the previous increment
        increments == IF q.ulp = -1 /\ ~IsZero(q) /\ Divides(step.mag, q.mag)
                      THEN Dec(whole) ELSE whole
    IN  IF q.kind = "nan" THEN Zero
        ELSE IF IsZero(step) THEN q
        ELSE IF q.neg THEN Zero
        ELSE Num(FALSE, TimesGrid(increments, step.mag), 0)

\* (a / g).quantize(Decimal("1e-18"), rounding=ROUND_HALF_UP) on magnitudes:
\* a * 10^18 / g to the nearest unit, ties away from zero
HalfUpQuot(a, g) ==
    LET n == Strip(a \o Zeros(UnitPlaces))
        hi == High(n, Shift(g))
        lo == Low(n, Shift(g))
        sd == ShortDiv(hi, Coef(g))
        up == \/ 2 * sd.r >= Coef(g)
              \/ /\ 2 * sd.r = Coef(g) - 1
                 /\ Shift(g) >= 1 /\ Len(lo) = Shift(g) /\ lo[1] >= 5
    IN  IF up THEN Inc(sd.q) ELSE sd.q

get_min_qty_by_min_notional(sym, p) ==
    LET min_notional == get_min_notional(sym)
        step == get_step_size(sym)
        min_qty == Num(min_notional.neg, HalfUpQuot(min_notional.mag, p.mag), 0)
    IN  IF p.kind # "num" THEN step
        ELSE IF p.neg \/ IsZero(p) THEN step
        ELSE IF Less(min_qty, step) THEN step
        ELSE min_qty

\* math.ceil(min_qty / step) for min_qty >= step > 0
CeilQuot(a, g) ==
    LET sd == ShortDiv(High(a, Shift(g)), Coef(g))
        exact == sd.r = 0 /\ AllZero(Low(a, Shift(g)))
    IN  IF ~exact THEN Inc(sd.q)
        ELSE IF GridKey(g, sd.q) \in FloatDivAbove THEN Inc(sd.q)
        ELSE sd.q

\* multiples * step in binary floating point
FloatTimes(n, g) ==
    Num(FALSE, TimesGrid(n, g),
        IF GridKey(g, n) \in FloatMulBelow THEN -1
        ELSE IF GridKey(g, n) \in FloatMulAbove THEN 1 ELSE 0)

\* faulty variant: the tolerance set at the default step
ONE_E_MINUS_8 == D(1, -8)
ONE_E_MINUS_12 == D(1, -12)

\* faulty variant: a quantity trimmed to zero is returned as zero
get_trimmed_quantity_no_minimum(sym, q, p) ==
    IF q.kind \in {"none", "str"} THEN Zero
    ELSE IF q.kind = "num" /\ (q.neg \/ IsZero(q)) THEN Zero
    ELSE round_quantity_down(sym, q)

get_trimmed_quantity(sym, q, p) ==
    LET trimmed == round_quantity_down(sym, q)
        min_qty == get_min_qty_by_min_notional(sym, p)
        step == get_step_size(sym)
        candidate == IF Less(min_qty, step) THEN step
                     ELSE FloatTimes(CeilQuot(min_qty.mag, step.mag), step.mag)
        final == round_quantity_down(sym, candidate)
    IN  IF q.kind = "none" THEN Zero
        ELSE IF q.kind = "str" THEN Zero
        ELSE IF q.kind = "num" /\ (q.neg \/ IsZero(q)) THEN Zero
        ELSE IF Leq(ONE_E_MINUS_12, trimmed) THEN trimmed
        \* min_qty / step raises ZeroDivisionError; the handler floors a
        \* quantity below 1e-12 at 8 decimal places
        ELSE IF IsZero(step) /\ ~Less(min_qty, step) THEN Zero
        ELSE IF final.neg \/ IsZero(final) THEN step
        ELSE final

get_trimmed_price(sym, p) ==
    IF p.kind = "none" THEN Zero
    ELSE IF p.kind = "str" THEN Raise
    ELSE round_price(sym, p)

get_precise_price(sym, p) == get_trimmed_price(sym, p)

(***************************************************************************)
(* The callers: arguments passed to the public functions                   *)
(***************************************************************************)
MaxQtyCoef == 12
MaxPriceCoef == 6

Symbols == {"BTCUSDT", "DOGEUSDT", "SHIBUSDT", "ETHUSDT", "BADUSDT", "XRPUSDT", "ANY"}
QtyExps == {-14, -13, -9, -8, -7, -4}
QtyInputs == {None, NaN, Text} \cup {D(c, e) : c \in -1..MaxQtyCoef, e \in QtyExps}
\* prices passed along with a quantity
QtyPriceInputs == {None, NaN, Text, D(-1, 0), D(0, 0), D(50000, 0), D(52000, 0),
                   D(3, 0), D(1, -3)}
\* prices to be trimmed
PriceExps == {-11, -9, -3, 0}
PriceInputs == {None, NaN, Text, D(50123456, -3)}
               \cup {D(c, e) : c \in (-MaxPriceCoef)..MaxPriceCoef, e \in PriceExps}

NoArg == None

Init ==
    /\ precision_file \in Sources
    /\ data = _load(precision_file)
    /\ pc = "idle"
    /\ op = "none"
    /\ symbol = ""
    /\ qty = NoArg
    /\ price = NoArg
    /\ result = NoArg

Call(name, sym, q, p, r) ==
    /\ pc = "idle"
    /\ pc' = "returned"
    /\ op' = name
    /\ symbol' = sym
    /\ qty' = q
    /\ price' = p
    /\ result' = r
    /\ UNCHANGED <<precision_file, data>>

GetTickSize == \E sym \in Symbols : Call("get_tick_size", sym, NoArg, NoArg, get_tick_size(sym))

GetMinNotional ==
    \E sym \in Symbols : Call("get_min_notional", sym, NoArg, NoArg, get_min_notional(sym))

GetTrimmedQuantity ==
    \E sym \in Symbols, q \in QtyInputs, p \in QtyPriceInputs :
        Call("get_trimmed_quantity", sym, q, p, get_trimmed_quantity(sym, q, p))

GetTrimmedPrice ==
    \E sym \in Symbols, p \in PriceInputs :
        Call("get_trimmed_price", sym, NoArg, p, get_trimmed_price(sym, p))

GetPrecisePrice ==
    \E sym \in Symbols, p \in PriceInputs :
        Call("get_precise_price", sym, NoArg, p, get_precise_price(sym, p))

\* the caller takes the returned value (or the exception) and goes on
Return ==
    /\ pc = "returned"
    /\ pc' = "idle"
    /\ op' = "none"
    /\ symbol' = ""
    /\ qty' = NoArg
    /\ price' = NoArg
    /\ result' = NoArg
    /\ UNCHANGED <<precision_file, data>>

Next ==
    \/ GetTickSize
    \/ GetMinNotional
    \/ GetTrimmedQuantity
    \/ GetTrimmedPrice
    \/ GetPrecisePrice
    \/ Return

Spec == Init /\ [][Next]_vars

(***************************************************************************)
(* Properties                                                              *)
(***************************************************************************)
QtyCall == pc = "returned" /\ op = "get_trimmed_quantity"
PriceCall == pc = "returned" /\ op \in {"get_trimmed_price", "get_precise_price"}
Positive(v) == v.kind = "num" /\ ~v.neg /\ ~IsZero(v)

\* floor(q / step) * step for q >= 0
StepFloor(sym, q) ==
    Num(FALSE, TimesGrid(FloorQuot(q.mag, get_step_size(sym).mag), get_step_size(sym).mag), 0)
\* the neighbours of the grid point v on the grid of size g > 0
GridUp(v, g) ==
    IF v.neg THEN Num(TRUE, TimesGrid(Dec(FloorQuot(v.mag, g.mag)), g.mag), 0)
    ELSE Num(FALSE, TimesGrid(Inc(FloorQuot(v.mag, g.mag)), g.mag), 0)
GridDown(v, g) ==
    IF v.neg \/ IsZero(v) THEN Num(TRUE, TimesGrid(Inc(FloorQuot(v.mag, g.mag)), g.mag), 0)
    ELSE Num(FALSE, TimesGrid(Dec(FloorQuot(v.mag, g.mag)), g.mag), 0)
\* a * b as a magnitude in units of 1e-36, and a in those units
Product(a, b) == Strip(ShortMul(a.mag, Coef(b.mag)) \o Zeros(Shift(b.mag)))
Fine(a) == Strip(a.mag \o Zeros(UnitPlaces))
\* the call took the substitution branch: qty > 0 and its step-floor is zero
Substituted == QtyCall /\ Positive(qty) /\ IsZero(StepFloor(symbol, qty))

\* C1: for a quantity >= 0, with any price argument, get_trimmed_quantity
\* returns a number >= 0 that is an integer multiple of the symbol's step size.
C1_OnStepGrid ==
    (QtyCall /\ qty.kind = "num" /\ ~qty.neg) =>
        /\ result.kind = "num" /\ ~result.neg
        /\ IsMultipleOf(result, get_step_size(symbol))

\* a sub-step quantity with a price was replaced by several steps
C1_Witness ==
    /\ Substituted /\ Positive(price)
    /\ Less(get_step_size(symbol), result)
    /\ IsMultipleOf(result, get_step_size(symbol))

C3_LargestMultipleBelow ==
    (PriceCall /\ price.kind = "num" /\ Positive(get_tick_size(symbol))) =>
        /\ result.kind = "num"
        /\ IsMultipleOf(result, get_tick_size(symbol))
        /\ Leq(result, price)
        /\ Less(price, GridUp(result, get_tick_size(symbol)))

\* C3 amended: the result is the multiple of the tick nearest to the price
\* in the direction of zero: the largest multiple <= price for price >= 0,
\* the smallest multiple >= price for price < 0.
C3_NearestMultipleTowardZero ==
    (PriceCall /\ price.kind = "num" /\ Positive(get_tick_size(symbol))) =>
        /\ result.kind = "num"
        /\ IsMultipleOf(result, get_tick_size(symbol))
        /\ ~price.neg => /\ Leq(result, price)
                         /\ Less(price, GridUp(result, get_tick_size(symbol)))
        /\ price.neg => /\ Leq(price, result)
                        /\ Less(GridDown(result, get_tick_size(symbol)), price)

\* a positive price off the tick grid was rounded down to a non-zero multiple
C3_Witness ==
    /\ PriceCall /\ Positive(price) /\ Positive(get_tick_size(symbol))
    /\ Positive(result) /\ Less(result, price)

\* C4: in the substitution branch with a price > 0 the returned quantity is a
\* multiple of the step, at least one step, and quantity * price >= min_notional.
C4_ClearsMinNotional ==
    (Substituted /\ Positive(price)) =>
        /\ IsMultipleOf(result, get_step_size(symbol))
        /\ Leq(get_step_size(symbol), result)
        /\ CmpMag(Product(result, price), Fine(get_min_notional(symbol))) >= 0

\* C5: no public operation raises; each returns a number.
C5_NeverRaises == pc = "returned" => result.kind # "raise"

NoEntry == symbol \notin DOMAIN data
Lacks(keys) ==
    /\ symbol \in DOMAIN data
    /\ data[symbol].shape = "dict"
    /\ keys \cap DOMAIN data[symbol].fields = {}

\* C6: a symbol without an entry (every symbol when the file is missing or
\* unparsable) gets tick 1e-8, step 1e-8 and minimum notional 1e-6, and an entry
\* without the keys of one field gets that field's default whatever else it has.
C6_Defaults ==
    pc = "returned" =>
        /\ (op = "get_tick_size" /\ (NoEntry \/ Lacks({"tickSize", "priceTick", "pricePrecision"})))
               => result = D(1, -8)
        /\ (op = "get_min_notional" /\ (NoEntry \/ Lacks({"minNotional", "min_notional"})))
               => result = D(1, -6)
        /\ (NoEntry \/ Lacks({"stepSize", "lotSize", "quantity_step", "qty_step",
                              "quantityPrecision", "qtyPrecision"}))
               => get_step_size(symbol) = D(1, -8)
        /\ precision_file # "present" => NoEntry

\* the tick size of a symbol asked for after an unparsable file was loaded
C6_Witness ==
    /\ pc = "returned" /\ op = "get_tick_size" /\ precision_file = "malformed"
    /\ NoEntry /\ result = D(1, -8)

\* C7: an entry whose only price field is pricePrecision = n (an integer >= 0)
\* has tick size 10^-n.
C7_PricePrecisionIsPlaces ==
    (/\ pc = "returned" /\ op = "get_tick_size"
     /\ symbol \in DOMAIN data /\ data[symbol].shape = "dict"
     /\ "pricePrecision" \in DOMAIN data[symbol].fields
     /\ {"tickSize", "priceTick"} \cap DOMAIN data[symbol].fields = {}
     /\ data[symbol].fields["pricePrecision"].kind = "num"
     /\ ~data[symbol].fields["pricePrecision"].neg
     /\ IsMultipleOf(data[symbol].fields["pricePrecision"], D(1, 0)))
    => result = D(1, -ToInt(High(data[symbol].fields["pricePrecision"].mag, UnitPlaces)))

\* C8: trimming the returned quantity again, with the same price, returns it
\* unchanged, for any quantity argument.
C8_Idempotent ==
    QtyCall => /\ result.kind = "num"
               /\ get_trimmed_quantity(symbol, result, price) = result

\* a substituted quantity below the 1e-12 tolerance, which the second call
\* substitutes again
C8_Witness ==
    /\ Substituted
    /\ result # qty /\ Positive(result)
    /\ Less(result, D(1, -12))

\* C9: get_trimmed_price and get_precise_price return 0 for a null, NaN or
\* non-numeric price.
C9_InvalidPriceGivesZero ==
    (PriceCall /\ price.kind \in {"none", "nan", "str"}) => result = Zero

\* C10: a quantity > 0 below one step, with no usable price (null or <= 0) or
\* with min_notional / price below one step, becomes exactly one step.
C10_OneStep ==
    (/\ Substituted
     /\ \/ price.kind = "none"
        \/ price.kind = "num" /\ ~Positive(price)
        \/ /\ Positive(price)
           /\ CmpMag(Fine(get_min_notional(symbol)), Product(get_step_size(symbol), price)) = -1)
    => /\ result = get_step_size(symbol)
       /\ ~IsZero(result)

\* step 0.001, min_notional 10: 0.0005 at price 50000 becomes 0.001
C10_Witness ==
    /\ QtyCall /\ symbol = "BTCUSDT" /\ precision_file = "present"
    /\ qty = D(5, -4) /\ price = D(50000, 0)
    /\ result = D(1, -3)

====
